---- MODULE Spec2Model ----
(***************************************************************************)
(* Country Cache API: the refresh-and-upsert pipeline, the name lookups,   *)
(* the delete, list and summary-image handlers, over a relational store.   *)
(*                                                                         *)
(* The store is the committed content of the `countries` table.  A refresh *)
(* request is a sequence of steps separated by the handler's awaits: the   *)
(* readiness check, the country directory response, the exchange rates     *)
(* response (derivation and timestamp follow without an await), one lookup *)
(* per payload, and the flush / summary render / commit.  Several refresh  *)
(* requests may be in flight at once.  get-one, delete, list and the image *)
(* fetch are one statement each and are one step each.                     *)
(***************************************************************************)
EXTENDS Integers, Sequences, FiniteSets, TLC

(***************************************************************************)
(* Bounds of the model.                                                    *)
(***************************************************************************)
\* refresh requests that may be in flight at the same time
NumSlots == 2
\* refresh requests started in one behaviour
MaxRefresh == 2

Slots == 1..NumSlots

(***************************************************************************)
(* Python's None.  Text columns use NONE, numeric columns NoneNum (every   *)
(* number the program stores is >= 0).                                     *)
(***************************************************************************)
NONE == "None"
NoneNum == 0 - 1

\* Python truthiness of an optional string: None and "" are falsy
Truthy(s) == s \notin {NONE, ""}

(***************************************************************************)
(* str.lower() / SQL lower() on the names the model uses.                  *)
(***************************************************************************)
Lower(s) ==
    CASE s \in {"Nigeria", "nigeria", "NIGERIA"} -> "nigeria"
      [] s \in {"Ghana", "ghana", "GHANA"} -> "ghana"
      [] s \in {"Peru", "peru", "PERU"} -> "peru"
      [] s \in {"Togo", "togo", "TOGO"} -> "togo"
      [] s \in {"Mali", "mali", "MALI"} -> "mali"
      [] OTHER -> s

(***************************************************************************)
(* Upstream data.  A country descriptor of the directory API: name,        *)
(* capital, region, population, flag and the currency list (has_currencies *)
(* is FALSE when the key is absent or null).                               *)
(***************************************************************************)
Descriptor(name, capital, region, population, flag, has, currencies) ==
    [name |-> name, capital |-> capital, region |-> region,
     population |-> population, flag |-> flag,
     has_currencies |-> has, currencies |-> currencies]

cNigeria == Descriptor("Nigeria", "Abuja", "Africa", 2, "ng.svg", TRUE, <<[code |-> "NGN"]>>)
cNigeriaLower == Descriptor("nigeria", "Lagos", "Africa", 4, "ng.svg", TRUE, <<[code |-> "NGN"]>>)
cGhanaNoList == Descriptor("Ghana", "Accra", "Africa", 6, "gh.svg", FALSE, <<>>)
cTogo == Descriptor("Togo", NONE, NONE, NoneNum, NONE, TRUE, <<>>)
cPeru == Descriptor("Peru", "Lima", "Americas", 2, "pe.svg", TRUE, <<[code |-> NONE], [code |-> "PEN"]>>)

\* the directory responses the model draws from (non-empty arrays of
\* MaxBatch countries)
MaxBatch == 2
Directory ==
    { <<cNigeria, cGhanaNoList>>,
      <<cNigeria, cNigeriaLower>>,
      <<cTogo, cPeru>> }

\* the exchange-rate response bodies: the `rates` member, or NoRates when the
\* body has no `rates` key (or it is null)
EmptyRates == [c \in {} |-> 0]
NoRates == [c \in {"__absent__"} |-> 0]
RateBodies ==
    { [rates |-> [c \in {"NGN", "USD"} |-> IF c = "NGN" THEN 2 ELSE 1]],
      [rates |-> EmptyRates],
      [rates |-> NoRates] }

\* random.uniform(1000, 2000): the values the model draws
Multipliers == {1000, 1500}

(***************************************************************************)
(* utils.py                                                                *)
(***************************************************************************)
\* body.get('rates') or {}
fetch_exchange_rates(body) ==
    IF body.rates = NoRates \/ body.rates = EmptyRates THEN EmptyRates ELSE body.rates

extract_currency_code(country_obj) ==
    LET currencies == IF country_obj.has_currencies THEN country_obj.currencies ELSE <<>>
    IN  IF currencies = <<>> THEN NONE ELSE currencies[1].code

\* multiplier is the value random.uniform returns in this call
compute_estimated_gdp(population, exchange_rate, multiplier) ==
    IF population = NoneNum THEN NoneNum
    ELSE IF exchange_rate = NoneNum THEN 0
    ELSE IF exchange_rate = 0 THEN NoneNum
    ELSE (population * multiplier) \div exchange_rate


\* the summary image: total count and the top 5 by estimated GDP
NoImage == [total |-> NoneNum, top |-> <<>>, ts |-> 0]

(***************************************************************************)
(* State.                                                                  *)
(***************************************************************************)
VARIABLES
    db_ready,        \* main.db_ready
    db_error,        \* main.db_error is set (TRUE) or None (FALSE)
    store,           \* committed rows of the countries table
    next_id,         \* next value of the table's id sequence
    image,           \* content of cache/summary.png, NoImage when the file is absent
    clock,           \* datetime.now(): the last timestamp handed out
    pc,              \* per refresh request: the await it is suspended at
    countries_data,  \* per refresh request: the directory response
    rates,           \* per refresh request: what fetch_exchange_rates returned
    payloads,        \* per refresh request: the derived payloads
    refresh_ts,      \* per refresh request: refresh_ts
    existing,        \* per refresh request: per payload looked up, the row id found (0: none)
    resp,            \* the HTTP response the last step sent (NoResponse: none)
    committed_ts,    \* history: the largest refresh_ts of a committed batch
    last_batch       \* history: upstream data of the refresh that last changed the store,
                     \* and whether the change before it was a refresh with the same data

vars == <<db_ready, db_error, store, next_id, image, clock, pc,
          countries_data, rates, payloads, refresh_ts, existing, resp,
          committed_ts, last_batch>>

slotVars == <<pc, countries_data, rates, payloads, refresh_ts, existing>>

Response(op, arg, status, body, ts, log) ==
    [op |-> op, arg |-> arg, status |-> status, body |-> body, ts |-> ts, log |-> log]

NoResponse == Response("none", "", 0, <<>>, 0, "")

NoBatch == [countries |-> <<>>, rates |-> EmptyRates, repeated |-> FALSE]

(***************************************************************************)
(* models.py: a row of the countries table.                                *)
(***************************************************************************)
\* Fault variant of Country: the batch's timestamp is not stored.
Country_NoTimestamp(id, c, last_refreshed_at) ==
    [id |-> id, name |-> c.name, capital |-> c.capital, region |-> c.region,
     population |-> c.population, currency_code |-> c.currency_code,
     exchange_rate |-> c.exchange_rate, estimated_gdp |-> c.estimated_gdp,
     flag_url |-> c.flag_url, last_refreshed_at |-> 0]

Country(id, c, last_refreshed_at) ==
    [id |-> id, name |-> c.name, capital |-> c.capital, region |-> c.region,
     population |-> c.population, currency_code |-> c.currency_code,
     exchange_rate |-> c.exchange_rate, estimated_gdp |-> c.estimated_gdp,
     flag_url |-> c.flag_url, last_refreshed_at |-> last_refreshed_at]

\* the unique constraint on countries.name (exact, case-sensitive comparison)
NameUnique(rows) ==
    \A a \in rows, b \in rows : a.name = b.name => a.id = b.id

(***************************************************************************)
(* routers/countries.py, refresh_country_data: one payload per country.    *)
(***************************************************************************)
RatesGet(rs, code) == IF code \in DOMAIN rs THEN rs[code] ELSE NoneNum

\* Fault variant of Payload: a country without a currency code gets a null
\* estimated GDP, like a country whose code has no rate.
Payload_NoCodeNull(c, rs, multiplier) ==
    LET code == extract_currency_code(c)
        erate == IF Truthy(code) THEN RatesGet(rs, code) ELSE NoneNum
        hasRate == Truthy(code) /\ erate # NoneNum
    IN  [name |-> c.name,
         capital |-> c.capital,
         region |-> c.region,
         population |-> IF c.population \in {NoneNum, 0} THEN 0 ELSE c.population,
         currency_code |-> IF Truthy(code) THEN code ELSE NONE,
         exchange_rate |-> IF hasRate THEN erate ELSE NoneNum,
         estimated_gdp |-> IF hasRate
                           THEN compute_estimated_gdp(c.population, erate, multiplier)
                           ELSE NoneNum,
         flag_url |-> c.flag]

Payload(c, rs, multiplier) ==
    LET code == extract_currency_code(c)
        erate == IF Truthy(code) THEN RatesGet(rs, code) ELSE NoneNum
        hasRate == Truthy(code) /\ erate # NoneNum
    IN  [name |-> c.name,
         capital |-> c.capital,
         region |-> c.region,
         population |-> IF c.population \in {NoneNum, 0} THEN 0 ELSE c.population,
         currency_code |-> IF Truthy(code) THEN code ELSE NONE,
         exchange_rate |-> IF hasRate THEN erate ELSE NoneNum,
         estimated_gdp |-> IF ~Truthy(code) THEN 0
                           ELSE IF hasRate
                                THEN compute_estimated_gdp(c.population, erate, multiplier)
                                ELSE NoneNum,
         flag_url |-> c.flag]

(***************************************************************************)
(* crud.py                                                                 *)
(***************************************************************************)
\* the rows the query of get_country_by_name selects; .first() returns one of
\* them (the query has no ORDER BY), or None when there is none
get_country_by_name(rows, name) ==
    {row \in rows : Lower(row.name) = Lower(name)}

\* Fault variant of delete_country: the names are compared as they are.
delete_country_CaseSensitive(rows, name) ==
    {row \in rows : row.name # name}

\* the rows the DELETE statement of delete_country leaves
delete_country(rows, name) ==
    {row \in rows : Lower(row.name) # Lower(name)}

(***************************************************************************)
(* database.py, get_db: commit when the handler returned, roll back when   *)
(* it raised.                                                              *)
(***************************************************************************)
\* Fault variant of get_db: the session is committed whether or not the
\* request raised.
get_db_AlwaysCommits(raised, committed, session) == session

get_db(raised, committed, session) == IF raised THEN committed ELSE session


(***************************************************************************)
(* crud.py, upsert_countries.  The loop records, per payload, the row that *)
(* get_country_by_name found (existing[k], 0 when None); the session does  *)
(* not autoflush, so a lookup never sees a row this batch is adding.  The  *)
(* flush then writes: first one UPDATE per loaded row, in primary key      *)
(* order, carrying the attributes last set on it, then one INSERT per      *)
(* added object, in the order added.  The database checks the unique       *)
(* constraint after every statement.                                       *)
(***************************************************************************)
MinOf(S) == CHOOSE x \in S : \A y \in S : x <= y

\* the payload whose attributes a loaded row carries at the flush: the last
\* one the loop applied to it with setattr
LastPayloadFor(id, ps, found) ==
    LET k == CHOOSE i \in 1..Len(found) :
                 /\ found[i] = id
                 /\ \A j \in 1..Len(found) : found[j] = id => j <= i
    IN  ps[k]

RECURSIVE EmitUpdates(_, _, _, _, _)
EmitUpdates(rows, ids, ps, found, ts) ==
    IF ids = {} THEN [ok |-> TRUE, rows |-> rows, error |-> ""]
    ELSE LET id == MinOf(ids)
             old == {row \in rows : row.id = id}
             new == Country(id, LastPayloadFor(id, ps, found), ts)
             rows2 == (rows \ old) \cup {new}
         IN  IF old = {}
             THEN [ok |-> FALSE, rows |-> rows, error |-> "StaleDataError"]
             ELSE IF ~NameUnique(rows2)
             THEN [ok |-> FALSE, rows |-> rows, error |-> "IntegrityError"]
             ELSE EmitUpdates(rows2, ids \ {id}, ps, found, ts)

RECURSIVE EmitInserts(_, _, _, _, _, _)
EmitInserts(rows, k, ps, found, id, ts) ==
    IF k > Len(ps) THEN [ok |-> TRUE, rows |-> rows, error |-> ""]
    ELSE IF found[k] # 0 THEN EmitInserts(rows, k + 1, ps, found, id, ts)
    ELSE LET rows2 == rows \cup {Country(id, ps[k], ts)}
         IN  IF ~NameUnique(rows2)
             THEN [ok |-> FALSE, rows |-> rows, error |-> "IntegrityError"]
             ELSE EmitInserts(rows2, k + 1, ps, found, id + 1, ts)

\* session.flush(): the UPDATEs, then the INSERTs
Flush(rows, ps, found, id, ts) ==
    LET updated == EmitUpdates(rows, {found[k] : k \in 1..Len(found)} \ {0}, ps, found, ts)
    IN  IF ~updated.ok THEN updated
        ELSE EmitInserts(updated.rows, 1, ps, found, id, ts)

\* Fault variant of upsert_countries: a found row is deleted and added again
\* as a new object instead of being updated in place.
upsert_countries_Reinsert(rows, ps, found, id, refresh_timestamp) ==
    Flush({row \in rows : \A k \in 1..Len(found) : found[k] # row.id},
          ps, [k \in 1..Len(found) |-> 0], id, refresh_timestamp)

\* Fault variant of upsert_countries: the table is made to mirror the batch,
\* rows of countries that are not in it are dropped.
upsert_countries_Prune(rows, ps, found, id, refresh_timestamp) ==
    LET flushed == Flush(rows, ps, found, id, refresh_timestamp)
    IN  IF ~flushed.ok THEN flushed
        ELSE [flushed EXCEPT !.rows =
                 {row \in flushed.rows : row.last_refreshed_at = refresh_timestamp}]

\* the effect of upsert_countries on the session: the objects its loop
\* changed and added, written by the flush that ends it
upsert_countries(rows, ps, found, id, refresh_timestamp) ==
    Flush(rows, ps, found, id, refresh_timestamp)

Inserted(found) == Cardinality({k \in 1..Len(found) : found[k] = 0})

(***************************************************************************)
(* Orderings: the rows of a set as a sequence in storage (id) order, and   *)
(* a stable insertion sort by a key.                                       *)
(***************************************************************************)
RECURSIVE InIdOrder(_)
InIdOrder(rows) ==
    IF rows = {} THEN <<>>
    ELSE LET first == CHOOSE a \in rows : \A b \in rows : a.id <= b.id
         IN  <<first>> \o InIdOrder(rows \ {first})

\* Fault variant of GdpDescNullsLast: plain DESC, where PostgreSQL puts the
\* nulls first.
GdpDescNullsFirst(a, b) ==
    /\ b.estimated_gdp # NoneNum
    /\ a.estimated_gdp = NoneNum \/ a.estimated_gdp > b.estimated_gdp

\* ORDER BY estimated_gdp DESC NULLS LAST: a goes before b
GdpDescNullsLast(a, b) ==
    /\ a.estimated_gdp # NoneNum
    /\ b.estimated_gdp = NoneNum \/ a.estimated_gdp > b.estimated_gdp

\* ORDER BY name ASC
NameAsc(a, b) ==
    LET rank == [n \in {"Ghana", "Mali", "Nigeria", "Peru", "Togo", "nigeria"} |->
                    CASE n = "Ghana" -> 1 [] n = "Mali" -> 2 [] n = "Nigeria" -> 3
                      [] n = "Peru" -> 4 [] n = "Togo" -> 5 [] OTHER -> 6]
    IN  rank[a.name] < rank[b.name]

\* sorted(..., key=estimated_gdp, reverse=True)
GdpDesc(a, b) == a.estimated_gdp > b.estimated_gdp

RECURSIVE InsertBy(_, _, _)
InsertBy(x, seq, sortKind) ==
    IF seq = <<>> THEN <<x>>
    ELSE LET before == CASE sortKind = "gdp_desc" -> GdpDescNullsLast(x, Head(seq))
                         [] sortKind = "name_asc" -> NameAsc(x, Head(seq))
                         [] sortKind = "top" -> GdpDesc(x, Head(seq))
                         [] OTHER -> FALSE
         IN  IF before THEN <<x>> \o seq
             ELSE <<Head(seq)>> \o InsertBy(x, Tail(seq), sortKind)

RECURSIVE SortBy(_, _)
SortBy(seq, sortKind) ==
    IF seq = <<>> THEN <<>>
    ELSE InsertBy(seq[Len(seq)], SortBy(SubSeq(seq, 1, Len(seq) - 1), sortKind), sortKind)

\* crud.list_countries
list_countries(rows, region, currency, sort) ==
    LET q1 == IF Truthy(region) THEN {row \in rows : row.region = region} ELSE rows
        q2 == IF Truthy(currency) THEN {row \in q1 : row.currency_code = currency} ELSE q1
    IN  IF sort \in {"gdp_desc", "name_asc"} THEN SortBy(InIdOrder(q2), sort)
        ELSE InIdOrder(q2)

(***************************************************************************)
(* utils.py, generate_summary_image: what the image shows.                 *)
(***************************************************************************)
TopCount == 5

\* Fault variant of generate_summary_image: nothing is saved.
generate_summary_image_NotSaved(rows, refresh_ts_) == NoImage

generate_summary_image(rows, refresh_ts_) ==
    LET countries == InIdOrder(rows)
        withGdp == InIdOrder({c \in rows : c.estimated_gdp \notin {NoneNum, 0}})
        ranked == SortBy(withGdp, "top")
        top == SubSeq(ranked, 1, IF Len(ranked) < TopCount THEN Len(ranked) ELSE TopCount)
    IN  [total |-> Len(countries),
         top |-> [i \in 1..Len(top) |-> top[i].name],
         ts |-> refresh_ts_]


(***************************************************************************)
(* Initial state: the process has started, init_database is scheduled, the *)
(* table is empty and no summary image has been written.                   *)
(***************************************************************************)
Init ==
    /\ db_ready = FALSE
    /\ db_error = FALSE
    /\ store = {}
    /\ next_id = 1
    /\ image = NoImage
    /\ clock = 0
    /\ pc = [r \in Slots |-> "idle"]
    /\ countries_data = [r \in Slots |-> <<>>]
    /\ rates = [r \in Slots |-> EmptyRates]
    /\ payloads = [r \in Slots |-> <<>>]
    /\ refresh_ts = [r \in Slots |-> 0]
    /\ existing = [r \in Slots |-> <<>>]
    /\ resp = NoResponse
    /\ committed_ts = 0
    /\ last_batch = NoBatch

\* the request of slot r ends with `response`; its locals are gone
Finish(r, response) ==
    /\ pc' = [pc EXCEPT ![r] = "idle"]
    /\ countries_data' = [countries_data EXCEPT ![r] = <<>>]
    /\ rates' = [rates EXCEPT ![r] = EmptyRates]
    /\ payloads' = [payloads EXCEPT ![r] = <<>>]
    /\ refresh_ts' = [refresh_ts EXCEPT ![r] = 0]
    /\ existing' = [existing EXCEPT ![r] = <<>>]
    /\ resp' = response

(***************************************************************************)
(* main.py, init_database: the background task sets db_ready, or db_error. *)
(***************************************************************************)
init_database(ok) ==
    /\ ~db_ready /\ ~db_error
    /\ db_ready' = ok
    /\ db_error' = ~ok
    /\ resp' = NoResponse
    /\ UNCHANGED <<store, next_id, image, clock, slotVars,
                   committed_ts, last_batch>>

(***************************************************************************)
(* POST /countries/refresh, refresh_countries.  Up to the timestamp the    *)
(* handler reads and writes nothing the other requests share (the          *)
(* readiness flag apart, which never goes back to FALSE), so its awaits up *)
(* to there are taken in one step, one action per way it can end.          *)
(***************************************************************************)
\* lines 108-125: the readiness check fails
RefreshNotReady ==
    /\ ~db_ready
    /\ resp' = Response("refresh", "", 503, <<>>, 0, "Database not ready")
    /\ store' = get_db(TRUE, store, store)
    /\ UNCHANGED <<db_ready, db_error, next_id, image, clock, slotVars,
                   committed_ts, last_batch>>

\* lines 148-165: the directory request failed (transport, status, body)
CountriesUnavailable ==
    /\ db_ready
    /\ resp' = Response("refresh", "", 503, <<>>, 0, "Countries unavailable")
    /\ store' = get_db(TRUE, store, store)
    /\ UNCHANGED <<db_ready, db_error, next_id, image, clock, slotVars,
                   committed_ts, last_batch>>

\* lines 139-146, 157-165: the directory returned an empty array
CountriesEmpty ==
    /\ db_ready
    /\ resp' = Response("refresh", "", 503, <<>>, 0, "Countries empty")
    /\ store' = get_db(TRUE, store, store)
    /\ UNCHANGED <<db_ready, db_error, next_id, image, clock, slotVars,
                   committed_ts, last_batch>>

\* lines 33-43: the directory returned data, fetch_exchange_rates raised
RatesUnavailable ==
    /\ db_ready
    /\ resp' = Response("refresh", "", 503, <<>>, 0, "Rates unavailable")
    /\ store' = get_db(TRUE, store, store)
    /\ UNCHANGED <<db_ready, db_error, next_id, image, clock, slotVars,
                   committed_ts, last_batch>>

\* lines 137, 168, 34, 45-76: the directory returned data, the rates arrived;
\* the payloads are derived (ms[k] is the multiplier drawn for country k) and
\* the batch's timestamp is taken
RatesFetched(r, data, body, ms) ==
    /\ db_ready
    /\ pc[r] = "idle"
    /\ \A q \in Slots : q < r => pc[q] # "idle"
    /\ clock < MaxRefresh
    /\ countries_data' = [countries_data EXCEPT ![r] = data]
    /\ LET rs == fetch_exchange_rates(body)
       IN  /\ rates' = [rates EXCEPT ![r] = rs]
           /\ payloads' = [payloads EXCEPT ![r] =
                  [k \in 1..Len(data) |-> Payload(data[k], rs, ms[k])]]
    /\ clock' = clock + 1
    /\ refresh_ts' = [refresh_ts EXCEPT ![r] = clock + 1]
    /\ pc' = [pc EXCEPT ![r] = "upsert"]
    /\ resp' = NoResponse
    /\ UNCHANGED <<db_ready, db_error, store, next_id, image,
                   existing, committed_ts, last_batch>>

\* crud.upsert_countries, one turn of the loop: the lookup of payload k
UpsertLookup(r, found) ==
    /\ pc[r] = "upsert"
    /\ LET k == Len(existing[r]) + 1
           hits == get_country_by_name(store, payloads[r][k].name)
       IN  /\ IF hits = {} THEN found = 0 ELSE found \in {row.id : row \in hits}
           /\ existing' = [existing EXCEPT ![r] = Append(@, found)]
           /\ pc' = [pc EXCEPT ![r] = IF k = Len(payloads[r]) THEN "flush" ELSE "upsert"]
    /\ resp' = NoResponse
    /\ UNCHANGED <<db_ready, db_error, store, next_id, image, clock,
                   countries_data, rates, payloads, refresh_ts, committed_ts, last_batch>>

\* Fault variant of RenderFailureSwallowed: the exception propagates.
RenderFailurePropagates == FALSE

\* whether the except clause of refresh_country_data (lines 83-87) lets the
\* request go on after generate_summary_image raised
RenderFailureSwallowed == TRUE

\* crud.py 69, countries.py 82-89, 170-191, database.py 75-78: the flush, the
\* summary render (rendered: it did not raise), the response and the commit
FlushAndRespond(r, rendered) ==
    /\ pc[r] = "flush"
    /\ LET flushed == upsert_countries(store, payloads[r], existing[r], next_id, refresh_ts[r])
           raised == ~flushed.ok \/ (~rendered /\ ~RenderFailureSwallowed)
       IN  /\ store' = get_db(raised, store, flushed.rows)
           /\ next_id' = IF raised THEN next_id ELSE next_id + Inserted(existing[r])
           /\ image' = IF flushed.ok /\ rendered
                       THEN generate_summary_image(flushed.rows, refresh_ts[r])
                       ELSE image
           /\ committed_ts' = IF ~raised /\ refresh_ts[r] > committed_ts
                              THEN refresh_ts[r] ELSE committed_ts
           /\ last_batch' = IF raised THEN last_batch
                            ELSE [countries |-> countries_data[r], rates |-> rates[r],
                                  repeated |-> /\ last_batch.countries = countries_data[r]
                                               /\ last_batch.rates = rates[r]]
           /\ Finish(r, IF raised
                        THEN Response("refresh", "", 500, <<>>, 0,
                                      IF flushed.ok THEN "render failed" ELSE flushed.error)
                        ELSE Response("refresh", "", 200, <<>>, refresh_ts[r],
                                      IF rendered THEN "rendered" ELSE "render failed"))
    /\ UNCHANGED <<db_ready, db_error, clock>>

(***************************************************************************)
(* GET /countries/{name}                                                   *)
(***************************************************************************)
get_country(name, country) ==
    /\ LET hits == get_country_by_name(store, name)
       IN  IF hits = {}
           THEN /\ country = NoneNum
                /\ resp' = Response("get", name, 404, <<>>, 0, "Country not found")
           ELSE /\ \E row \in hits : row.id = country
                /\ resp' = Response("get", name, 200,
                                    <<CHOOSE row \in hits : row.id = country>>, 0, "")
    /\ UNCHANGED <<db_ready, db_error, store, next_id, image, clock,
                   slotVars, committed_ts, last_batch>>

(***************************************************************************)
(* DELETE /countries/{name}                                                *)
(***************************************************************************)
DeleteCountry(name) ==
    /\ LET remaining == delete_country(store, name)
           rowcount == Cardinality(store) - Cardinality(remaining)
       IN  IF rowcount = 0
           THEN /\ store' = get_db(TRUE, store, remaining)
                /\ resp' = Response("delete", name, 404, <<>>, 0, "Country not found")
                /\ UNCHANGED last_batch
           ELSE /\ store' = get_db(FALSE, store, remaining)
                /\ resp' = Response("delete", name, 200, <<>>, 0, "deleted")
                /\ last_batch' = NoBatch
    /\ UNCHANGED <<db_ready, db_error, next_id, image, clock,
                   slotVars, committed_ts>>

(***************************************************************************)
(* GET /countries/image                                                    *)
(***************************************************************************)
get_summary_image ==
    /\ resp' = IF image = NoImage
               THEN Response("image", "", 404, <<>>, 0, "Summary image not found")
               ELSE Response("image", "", 200, <<image>>, 0, "")
    /\ UNCHANGED <<db_ready, db_error, store, next_id, image, clock,
                   slotVars, committed_ts, last_batch>>

(***************************************************************************)
(* GET /countries                                                          *)
(***************************************************************************)
get_countries(region, currency, sort) ==
    /\ resp' = Response("list", [region |-> region, currency |-> currency, sort |-> sort],
                        200, list_countries(store, region, currency, sort), 0, "")
    /\ UNCHANGED <<db_ready, db_error, store, next_id, image, clock,
                   slotVars, committed_ts, last_batch>>

(***************************************************************************)
(* main.py, GET /ready.  The handler returns a dict, or a pair of a dict   *)
(* and the number 503.  The route is declared without a status_code, so    *)
(* the framework answers with its default status and encodes whatever the  *)
(* handler returned, a pair included, as the JSON body.                    *)
(***************************************************************************)
RouteStatusCode == 200

\* what readiness() returns: `second` is the second component of the pair,
\* NoneNum when a plain dict is returned
readiness_return ==
    IF ~db_ready
    THEN IF db_error
         THEN [status |-> "not_ready", reason |-> "Database initialization failed",
               second |-> 503]
         ELSE [status |-> "not_ready", reason |-> "Database is still initializing",
               second |-> 503]
    ELSE [status |-> "ready", reason |-> "", second |-> NoneNum]

readiness ==
    /\ resp' = Response("ready", "", RouteStatusCode, <<readiness_return>>, 0,
                        readiness_return.status)
    /\ UNCHANGED <<db_ready, db_error, store, next_id, image, clock,
                   slotVars, committed_ts, last_batch>>

\* the names requests ask for
NameInputs == {"NIGERIA", "Mali"}

Next ==
    \/ \E ok \in BOOLEAN : init_database(ok)
    \/ RefreshNotReady
    \/ CountriesUnavailable
    \/ CountriesEmpty
    \/ RatesUnavailable
    \/ \E r \in Slots, data \in Directory, body \in RateBodies,
          ms \in [1..MaxBatch -> Multipliers] : RatesFetched(r, data, body, ms)
    \/ \E r \in Slots, found \in 0..(next_id - 1) : UpsertLookup(r, found)
    \/ \E r \in Slots, rendered \in BOOLEAN : FlushAndRespond(r, rendered)
    \/ \E name \in NameInputs, country \in (0 - 1)..(next_id - 1) : get_country(name, country)
    \/ \E name \in NameInputs : DeleteCountry(name)
    \/ get_summary_image
    \/ readiness

Spec == Init /\ [][Next]_vars

(***************************************************************************)
(* The list query on its own: the table holds up to MaxRows rows that      *)
(* refreshes wrote, one per country name, and GET /countries is asked with *)
(* every combination of filters and sort keywords.                         *)
(***************************************************************************)
MaxRows == 4

Descriptors == <<cNigeria, cNigeriaLower, cGhanaNoList, cTogo, cPeru>>

RowPool ==
    { Country(i, Payload(Descriptors[i], fetch_exchange_rates(body), m), 1) :
        i \in 1..Len(Descriptors), body \in RateBodies, m \in Multipliers }

ListStores ==
    { S \in SUBSET RowPool :
        /\ Cardinality(S) <= MaxRows
        /\ \A a \in S, b \in S : a.id = b.id => a = b }

InitList ==
    /\ db_ready = TRUE
    /\ db_error = FALSE
    /\ store \in ListStores
    /\ next_id = Len(Descriptors) + 1
    /\ image = NoImage
    /\ clock = 1
    /\ pc = [r \in Slots |-> "idle"]
    /\ countries_data = [r \in Slots |-> <<>>]
    /\ rates = [r \in Slots |-> EmptyRates]
    /\ payloads = [r \in Slots |-> <<>>]
    /\ refresh_ts = [r \in Slots |-> 0]
    /\ existing = [r \in Slots |-> <<>>]
    /\ resp = NoResponse
    /\ committed_ts = 1
    /\ last_batch = NoBatch

RegionInputs == {NONE, "", "Africa", "Americas"}
CurrencyInputs == {NONE, "NGN", "USD"}
SortInputs == {NONE, "gdp_desc", "name_asc", "population_asc"}

NextList ==
    \E region \in RegionInputs, currency \in CurrencyInputs, sort \in SortInputs :
        get_countries(region, currency, sort)

SpecList == InitList /\ [][NextList]_vars


(***************************************************************************)
(* Properties.  A step of slot r that ends its refresh with a response:    *)
(***************************************************************************)
RefreshEnds(r) == pc[r] = "flush" /\ pc'[r] = "idle"

RefreshSucceeds(r) == RefreshEnds(r) /\ resp'.status = 200

\* the row of store' that continues row (same primary key), if any
Continues(row2, row) == row2.id = row.id

(***************************************************************************)
(* C1.  If either upstream call of a refresh fails or returns an empty     *)
(* payload, the refresh answers 503 and is aborted before any write.       *)
(* As stated: an upstream failure is answered 503, no refresh is past the  *)
(* rates call holding an empty rates payload, and no refresh that got one  *)
(* reports success.                                                        *)
(***************************************************************************)
C1_UpstreamFailureAborts ==
    /\ (resp.op = "refresh" /\ resp.log \in {"Countries unavailable", "Countries empty",
                                              "Rates unavailable"})
          => resp.status = 503
    /\ \A r \in Slots : pc[r] # "idle" => rates[r] # EmptyRates
    /\ (resp.op = "refresh" /\ resp.status = 200) => last_batch.rates # EmptyRates

(***************************************************************************)
(* C2.  Running refresh twice in a row with unchanged upstream data leaves *)
(* the record count unchanged, and of every record only last_refreshed_at  *)
(* differs after the second refresh.                                       *)
(***************************************************************************)
SameUpstreamAsLast(r) ==
    /\ last_batch.countries = countries_data[r]
    /\ last_batch.rates = rates[r]

HasNoCurrencyCode(c) ==
    \/ ~c.has_currencies
    \/ Len(c.currencies) = 0
    \/ c.currencies[1].code = NONE

LastEntryOfName(data, k) ==
    \A j \in 1..Len(data) : j > k => Lower(data[j].name) # Lower(data[k].name)

C3_CurrencyCases ==
    [][\A r \in Slots : RefreshSucceeds(r) =>
          \A k \in 1..Len(countries_data[r]) :
              LET c == countries_data[r][k]
              IN  LastEntryOfName(countries_data[r], k) =>
                    \E row \in store' :
                        /\ row.name = c.name
                        /\ row.last_refreshed_at = refresh_ts[r]
                        /\ HasNoCurrencyCode(c) =>
                              /\ row.currency_code = NONE
                              /\ row.exchange_rate = NoneNum
                              /\ row.estimated_gdp = 0
                        /\ (~HasNoCurrencyCode(c)
                              /\ c.currencies[1].code \notin DOMAIN rates[r]) =>
                              /\ row.currency_code = c.currencies[1].code
                              /\ row.exchange_rate = NoneNum
                              /\ row.estimated_gdp = NoneNum]_vars

\* one batch has stored a country without a currency code and a country
\* whose code has no rate
C3_Witness ==
    /\ resp.op = "refresh" /\ resp.status = 200
    /\ \E row \in store : /\ row.last_refreshed_at = resp.ts
                          /\ row.currency_code = NONE
                          /\ row.estimated_gdp = 0
    /\ \E row \in store : /\ row.last_refreshed_at = resp.ts
                          /\ row.currency_code = "NGN"
                          /\ row.exchange_rate = NoneNum
                          /\ row.estimated_gdp = NoneNum

(***************************************************************************)
(* C4.  last_refreshed_at of every record touched by a refresh batch is    *)
(* set to that batch's timestamp, records not in the batch keep theirs,    *)
(* and a record's last_refreshed_at never moves backwards over any         *)
(* sequence of refreshes, overlapping ones included.                       *)
(***************************************************************************)
\* the rows a committing batch touches: those its lookups found and those it adds
Touched(r) ==
    ({existing[r][k] : k \in 1..Len(existing[r])} \ {0})
        \cup {id \in next_id..(next_id + Len(existing[r])) : id < next_id'}

BatchStampsItsRows ==
    /\ \A r \in Slots : RefreshSucceeds(r) =>
          /\ Touched(r) # {}
          /\ \A id \in Touched(r) : \E row \in store' :
                row.id = id /\ row.last_refreshed_at = refresh_ts[r]
          /\ \A row \in store : row.id \notin Touched(r) => row \in store'
    /\ (\A r \in Slots : ~RefreshSucceeds(r)) =>
          \A row \in store, row2 \in store' :
              Continues(row2, row) => row2.last_refreshed_at = row.last_refreshed_at

NeverBackwards ==
    \A row \in store, row2 \in store' :
        Continues(row2, row) => row2.last_refreshed_at >= row.last_refreshed_at

C4_TimestampMonotonic ==
    [][BatchStampsItsRows /\ NeverBackwards]_vars

\* C4 as amended: every record a batch touches gets the batch's timestamp,
\* the other records keep theirs, and last_refreshed_at does not move
\* backwards when batches commit in the order they took their timestamps,
\* as refreshes that do not overlap do.  (A batch that commits after a batch
\* with a later timestamp sets the records they share back to its own.)
C4_TimestampMonotonicInOrder ==
    [][/\ BatchStampsItsRows
       /\ (\A r \in Slots : RefreshSucceeds(r) => refresh_ts[r] > committed_ts)
             => NeverBackwards]_vars

\* a second batch has committed: a record it touched carries its timestamp,
\* a record it did not touch still carries the first batch's
C4_Witness ==
    /\ resp.op = "refresh" /\ resp.status = 200 /\ resp.ts = 2
    /\ committed_ts = 2
    /\ \E row \in store : row.last_refreshed_at = 2
    /\ \E row \in store : row.last_refreshed_at = 1

(***************************************************************************)
(* C5.  Country records are never removed automatically: a refresh only    *)
(* inserts or updates, so a record whose country is no longer in the       *)
(* upstream data stays, and the only operation that removes a record is a  *)
(* DELETE /countries/{name} matching that record's name.                   *)
(***************************************************************************)
C5_OnlyDeleteRemoves ==
    [][\A row \in store :
          (\A row2 \in store' : ~Continues(row2, row)) =>
              /\ resp'.op = "delete"
              /\ resp'.status = 200
              /\ Lower(resp'.arg) = Lower(row.name)
              /\ pc' = pc]_vars

\* a refresh has committed and a record of a country that was not in its
\* batch is still stored
C5_Witness ==
    /\ resp.op = "refresh" /\ resp.status = 200
    /\ \E row \in store :
          /\ row.last_refreshed_at < resp.ts
          /\ \A k \in 1..Len(last_batch.countries) :
                Lower(last_batch.countries[k].name) # Lower(row.name)


(***************************************************************************)
(* C6.  Name lookups are case-insensitive: once a record named N is        *)
(* stored, get-one and delete called with any case variant of N select     *)
(* that same record, and a refresh whose batch contains a case variant of  *)
(* N updates that record instead of inserting a new one.  As stated: the   *)
(* lookup of every case variant of a stored name selects exactly the       *)
(* record of that name, a get-one answers with it, and a committing batch  *)
(* adds no record whose name is a case variant of a stored one.            *)
(***************************************************************************)
CaseVariants(name) ==
    {v \in {"Nigeria", "nigeria", "NIGERIA", "Ghana", "ghana", "GHANA", "Peru", "peru",
            "PERU", "Togo", "togo", "TOGO"} : Lower(v) = Lower(name)}

C6_CaseInsensitiveLookup ==
    /\ \A row \in store : \A v \in CaseVariants(row.name) :
          get_country_by_name(store, v) = {row}
    /\ resp.op = "get" =>
          \A row \in store : Lower(row.name) = Lower(resp.arg) =>
              resp.status = 200 /\ resp.body = <<row>>

(***************************************************************************)
(* C7.  DELETE /countries/{name} with a name that matches no stored record *)
(* answers 404, not an internal error, and leaves the store unchanged;     *)
(* with a name that matches it removes exactly the matching record and a   *)
(* following get-one for that name answers not-found.                      *)
(***************************************************************************)
Matching(rows, name) == {row \in rows : Lower(row.name) = Lower(name)}

C7_DeleteByName ==
    [][/\ resp'.op = "delete" =>
            IF Matching(store, resp'.arg) = {}
            THEN resp'.status = 404 /\ store' = store
            ELSE /\ resp'.status = 200
                 /\ store' = store \ Matching(store, resp'.arg)
                 /\ Matching(store', resp'.arg) = {}
       /\ (resp.op = "delete" /\ resp.status = 200
             /\ resp'.op = "get" /\ resp'.arg = resp.arg) => resp'.status = 404]_vars

\* a delete has removed the record it matched and left another record stored
C7_Witness ==
    /\ resp.op = "delete" /\ resp.status = 200
    /\ Matching(store, resp.arg) = {}
    /\ store # {}

(***************************************************************************)
(* C8.  GET /countries/image answers not-found while no refresh has ever   *)
(* completed, and after one refresh that reported success it returns the   *)
(* rendered summary image.                                                 *)
(***************************************************************************)
ImageServedAsStored ==
    resp.op = "image" =>
        IF image = NoImage THEN resp.status = 404
        ELSE resp.status = 200 /\ resp.body = <<image>>

RenderFailed(r) == RefreshEnds(r) /\ resp'.log = "render failed"

PassesFilters(row, query) ==
    /\ Truthy(query.region) => row.region = query.region
    /\ Truthy(query.currency) => row.currency_code = query.currency

C10_GdpDescOrder ==
    (resp.op = "list" /\ resp.arg.sort = "gdp_desc") =>
        LET body == resp.body
        IN  /\ \A row \in store : PassesFilters(row, resp.arg) =>
                  Cardinality({i \in 1..Len(body) : body[i] = row}) = 1
            /\ \A i \in 1..Len(body) : body[i] \in store /\ PassesFilters(body[i], resp.arg)
            /\ \A i \in 1..Len(body), j \in 1..Len(body) : i < j =>
                  /\ body[i].estimated_gdp = NoneNum => body[j].estimated_gdp = NoneNum
                  /\ (body[i].estimated_gdp # NoneNum /\ body[j].estimated_gdp # NoneNum)
                        => body[i].estimated_gdp >= body[j].estimated_gdp

\* a filtered gdp_desc listing with two different non-null GDPs and a null one
C10_Witness ==
    /\ resp.op = "list" /\ resp.arg.sort = "gdp_desc" /\ resp.arg.region = "Africa"
    /\ Len(resp.body) >= 3
    /\ Len(resp.body) < Cardinality(store)
    /\ resp.body[1].estimated_gdp > resp.body[2].estimated_gdp
    /\ resp.body[2].estimated_gdp # NoneNum
    /\ resp.body[Len(resp.body)].estimated_gdp = NoneNum


(***************************************************************************)
(* C11.  /ready answers with HTTP status 200 only when database            *)
(* initialization has completed successfully (db_ready is true); while it  *)
(* is still running or has failed it answers 503.                          *)
(***************************************************************************)
C11_ReadyOnlyWhenInitialized ==
    resp.op = "ready" =>
        IF db_ready THEN resp.status = 200 ELSE resp.status = 503

(***************************************************************************)
(* C12.  A refresh is atomic with respect to the store: when the request   *)
(* ends with an error response (503 or 500), for any reason, a failure     *)
(* partway through the flush of its batch included, none of the batch's    *)
(* inserts or updates is persisted: the store is as it was.                *)
(***************************************************************************)
C12_RefreshAtomic ==
    [][(resp'.op = "refresh" /\ resp'.status \in {500, 503}) => store' = store]_vars

\* a refresh has failed at the flush with rows stored: its batch found a
\* row to update and, in the same flush, a statement was refused
C12_Witness ==
    /\ resp.op = "refresh" /\ resp.status = 500
    /\ resp.log \in {"IntegrityError", "StaleDataError"}
    /\ store # {}

(***************************************************************************)
(* C13.  After any sequence of refreshes and deletes, a single batch with  *)
(* two names that differ only in letter case and two overlapping refreshes *)
(* included, the store never holds two records whose names are equal       *)
(* under case-insensitive folding.                                         *)
(***************************************************************************)
C13_NoFoldEqualNames ==
    \A a \in store, b \in store : Lower(a.name) = Lower(b.name) => a = b

(***************************************************************************)
(* C14.  The summary rendered at the end of a refresh reports a total      *)
(* equal to the number of records in the store after the batch's upsert,   *)
(* and ranks exactly the min(5, k) records with the largest estimated_gdp  *)
(* among the k records whose estimated_gdp is non-null, in descending      *)
(* order; only null-GDP records are left out of the ranking.               *)
(***************************************************************************)
GdpOf(name) == (CHOOSE row \in store : row.name = name).estimated_gdp

C14_SummaryTotalAndTop5 ==
    (resp.op = "refresh" /\ resp.status = 200 /\ resp.log = "rendered") =>
        LET nonNull == {row \in store : row.estimated_gdp # NoneNum}
            k == Cardinality(nonNull)
            top == image.top
        IN  /\ image.total = Cardinality(store)
            /\ Len(top) = IF k < TopCount THEN k ELSE TopCount
            /\ \A i \in 1..Len(top) : \E row \in nonNull : row.name = top[i]
            /\ \A i \in 1..Len(top), j \in 1..Len(top) : i < j =>
                  top[i] # top[j] /\ GdpOf(top[i]) >= GdpOf(top[j])
            /\ \A row \in nonNull :
                  (\A i \in 1..Len(top) : top[i] # row.name) =>
                      \A i \in 1..Len(top) : GdpOf(top[i]) >= row.estimated_gdp

====
